---------------------------- MODULE Spec2Model ----------------------------
(* Buddy-XTR (src/module.js): the retention cache of the anti-delete      *)
(* feature, the delete-recovery handler, the messages.upsert dispatch and *)
(* the connection lifecycle (init / start / connection.update).           *)
EXTENDS Integers, Sequences, FiniteSets, TLC

(* ------------------------------ bounds -------------------------------- *)
\* The cache limit (1000 at module.js:736) scaled down so that the bound is crossed.
StoreLimit == 2
\* Message identifiers 1..MaxIds; 0 stands for a key without an id.
MaxIds == 3
\* Date.now() ranges over 0..MaxTime (several puts may share one value).
MaxTime == 1
\* Calls of start() in one behaviour (the first by init, the rest by reconnects).
MaxStarts == 3
\* Firings of the periodic timers in one behaviour.
MaxTimerRuns == 1
\* Entries of MANDATORY_GROUPS (three are built in at module.js:63-79).
MaxGroups == 3

(* ------------------------------ values -------------------------------- *)
MsgIds == 1..MaxIds
NoId == 0
\* The id of the protocol messages themselves, distinct from every content id.
NoticeId == MaxIds + 1
NoJid == "absent"
Chats == {"chatA@s.whatsapp.net", "chatB@g.us"}
\* The chat the inbound messages of the model arrive in.
HomeChat == "chatA@s.whatsapp.net"
\* The model's inbound messages: an id names one message, so every delivery of
\* an id carries the same content. Ids are plain text,
\* images and a payload no extraction rule names (a location), in turn.
KindOf(id) ==
  CASE id % 3 = 1 -> "conversation"
    [] id % 3 = 2 -> "imageMessage"
    [] OTHER -> "locationMessage"
TextOf(id) ==
  CASE id % 3 = 1 -> "Hello world"
    [] id % 3 = 2 -> "a caption"
    [] OTHER -> ""
\* The invocations of handleAntiDelete that can be in flight together; an
\* invocation that has returned leaves its place to the next one.
Calls == {"c1", "c2"}
\* One recovery at a time, started again and again.
SoloCalls == {"c1"}
Handles == 1..MaxStarts

VARIABLES
  \* ---- retention cache and delete-recovery ----
  ANTI_DELETE_ENABLED,  \* module.js:42
  BOT_OWNER,            \* module.js:59: TRUE when a report recipient containing '@' is configured
  messageStore,         \* module.js:37: the Map, as the sequence of its entries in insertion order
  now,                  \* Date.now()
  calls,                \* the invocations of handleAntiDelete and where each stands
  recency,              \* history: the ids put, each once, in the order of their latest put
  lastEvent,            \* history: what the dispatch did with the latest event, when that
                        \* event is a deletion notice not sent by the agent
  \* ---- connection lifecycle ----
  credsOnDisk,          \* fs.existsSync(credsPath)
  SESSION_ID,           \* the shape of config.SESSION_ID
  useQR,                \* module.js:32
  initialConnection,    \* module.js:33
  pcInit,               \* where init() stands
  initRuns,             \* history: runs of the bootstrap precedence of init()
  startCalls,           \* history: calls of start()
  startsPending,        \* calls of start() that have not yet reached makeWASocket
  exited,               \* process.exit(1) was called
  nHandles,             \* session handles constructed by makeWASocket
  hstate,               \* per handle: "none", "connecting", "open", "closed"
  closeCause,           \* per handle: the cause of its latest close event
  opc,                  \* per handle: where its connection.update 'open' handler stands
  firstBranch,          \* history, per handle: its open handler entered the initialConnection branch
  openRecon,            \* history, per handle: handleAutoJoinGroups calls made by its open handler
  timerOn,              \* per handle: the setInterval of its start() is registered
  timerRuns,            \* history: handleAutoJoinGroups calls made by the timers
  \* ---- membership reconciler ----
  run,                  \* one run of handleAutoJoinGroups and where it stands
  \* ---- credential bootstrap, step by step ----
  sessionId,            \* config.SESSION_ID as a text
  credsFile,            \* the file at credsPath
  boot,                 \* init() and where it stands, with the history of its steps
  \* ---- status features ----
  toggles,              \* AUTO_VIEW_STATUS, AUTO_LIKE_STATUS (module.js:45-46) and the
                        \* config.AUTO_* options the messages.upsert handlers read
  feat,                 \* the feature handler (module.js:770-799) and where it stands
  issued,               \* history: what the handlers issued for the event in hand
  \* ---- commands on session handles ----
  staleUse              \* history, per handle: an accept-invite command was issued on it
                        \* after it had closed and a newer handle had been constructed

storeVars == <<ANTI_DELETE_ENABLED, BOT_OWNER, messageStore, now, calls, recency, lastEvent>>
lifeVars == <<credsOnDisk, SESSION_ID, useQR, initialConnection, pcInit, initRuns,
              startCalls, startsPending, exited, nHandles, hstate, closeCause, opc,
              firstBranch, openRecon, timerOn, timerRuns>>
reconVars == <<run>>
bootVars == <<sessionId, credsFile, boot>>
statusVars == <<toggles, feat, issued>>
handleVars == <<staleUse>>
auxVars == <<reconVars, bootVars, statusVars, handleVars>>
vars == <<storeVars, lifeVars, auxVars>>

(* ========================== retention cache =========================== *)
\* An inbound message (chatUpdate.messages[0]). kind is the populated payload
\* variant, "none" when mek.message is absent; ptype/delId/delJid are the
\* protocolMessage's type and key.
Mek(id, fromMe, jid, kind, text, ptype, delId, delJid) ==
  [id |-> id, fromMe |-> fromMe, remoteJid |-> jid, kind |-> kind, text |-> text,
   ptype |-> ptype, delId |-> delId, delJid |-> delJid]

\* Inbound content messages: retained ones, and one of each kind the guard of
\* module.js:732 rejects (sent by the agent, no id, no message).
ContentMeks ==
  {Mek(id, FALSE, HomeChat, KindOf(id), TextOf(id), 0, NoId, NoJid) : id \in MsgIds}
  \cup {Mek(1, TRUE, HomeChat, KindOf(1), TextOf(1), 0, NoId, NoJid),
        Mek(NoId, FALSE, HomeChat, KindOf(1), TextOf(1), 0, NoId, NoJid),
        Mek(1, FALSE, HomeChat, "none", "", 0, NoId, NoJid)}

\* Inbound protocol messages: deletion notices (type 0) and another type.
NoticeMeks ==
  {Mek(NoticeId, fm, HomeChat, "protocolMessage", "", pt, did, NoJid) :
     fm \in BOOLEAN, pt \in {0, 1}, did \in MsgIds}

\* Map.prototype: keys, has, get, set (an existing key keeps its position), delete.
MapKeys(store) == {store[i].id : i \in DOMAIN store}
MapHas(store, id) == id \in MapKeys(store)
MapGet(store, id) == store[CHOOSE i \in DOMAIN store : store[i].id = id]
MapSet(store, e) ==
  IF MapHas(store, e.id)
  THEN [i \in DOMAIN store |-> IF store[i].id = e.id THEN e ELSE store[i]]
  ELSE Append(store, e)
\* A mutant: delete drops the entry only when it is the first of the Map.
MapDeleteHead(store, id) ==
  IF store # <<>> /\ store[1].id = id THEN Tail(store) ELSE store
MapDelete(store, id) == SelectSeq(store, LAMBDA e : e.id # id)

\* Array.prototype.sort((a, b) => a[1].timestamp - b[1].timestamp): a stable sort.
RECURSIVE InsertByTimestamp(_, _)
InsertByTimestamp(sorted, e) ==
  IF sorted = <<>> THEN <<e>>
  ELSE IF Head(sorted).timestamp <= e.timestamp
       THEN <<Head(sorted)>> \o InsertByTimestamp(Tail(sorted), e)
       ELSE <<e>> \o sorted
RECURSIVE SortByTimestamp(_)
SortByTimestamp(entries) ==
  IF entries = <<>> THEN <<>>
  ELSE InsertByTimestamp(SortByTimestamp(SubSeq(entries, 1, Len(entries) - 1)),
                         entries[Len(entries)])
\* A mutant: the entry of the largest timestamp is taken for the oldest.
oldestKeyNewest(store) == SortByTimestamp(store)[Len(store)].id
oldestKey(store) == SortByTimestamp(store)[1].id

\* { ...mek, timestamp: Date.now() }
StoredEntry(mek, t) ==
  [id |-> mek.id, fromMe |-> mek.fromMe, timestamp |-> t, remoteJid |-> mek.remoteJid,
   kind |-> mek.kind, text |-> mek.text]

\* A mutant: the guard lets the agent's own messages through.
RetainsOwnToo(mek) ==
  mek.id # NoId /\ mek.kind # "none" /\ ANTI_DELETE_ENABLED

\* The guard of module.js:732.
Retains(mek) ==
  mek.id # NoId /\ mek.kind # "none" /\ ~mek.fromMe /\ ANTI_DELETE_ENABLED

\* A mutant: the bound test is off by one.
storePutLate(store, mek, t) ==
  LET s1 == MapSet(store, StoredEntry(mek, t))
  IN IF Len(s1) > StoreLimit + 1 THEN MapDelete(s1, oldestKey(s1)) ELSE s1

\* module.js:733-740: messageStore.set, then one eviction when over the limit.
storePut(store, mek, t) ==
  LET s1 == MapSet(store, StoredEntry(mek, t))
  IN IF Len(s1) > StoreLimit THEN MapDelete(s1, oldestKey(s1)) ELSE s1

\* history: the id moves to the end of the recency order.
Touch(order, id) == Append(SelectSeq(order, LAMBDA x : x # id), id)


(* ======================== handleAntiDelete ============================ *)
\* module.js:244-269: the content kind and the extracted content.
messageType(kind) ==
  CASE kind = "conversation" -> "Text"
    [] kind = "extendedTextMessage" -> "Extended Text"
    [] kind = "imageMessage" -> "Image"
    [] kind = "videoMessage" -> "Video"
    [] kind = "audioMessage" -> "Audio"
    [] kind = "documentMessage" -> "Document"
    [] kind = "stickerMessage" -> "Sticker"
    [] OTHER -> "Text"
messageContent(kind, text) ==
  CASE kind \in {"conversation", "extendedTextMessage"} -> text
    [] kind = "imageMessage" -> IF text = "" THEN "[Image Message]" ELSE text
    [] kind = "videoMessage" -> IF text = "" THEN "[Video Message]" ELSE text
    [] kind = "audioMessage" -> "[Audio Message]"
    [] kind = "documentMessage" -> "[Document]"
    [] kind = "stickerMessage" -> "[Sticker]"
    [] OTHER -> "Unknown content"

\* module.js:220: mek.message?.protocolMessage?.type === 0
IsDeletion(mek) == mek.kind = "protocolMessage" /\ mek.ptype = 0

IdleCall ==
  [pc |-> "idle", id |-> NoId, looked |-> FALSE, matched |-> FALSE, target |-> NoJid,
   chat |-> NoJid, kind |-> "none", text |-> "", sends |-> <<>>, removed |-> FALSE]

\* module.js:232: deletedMsgKey.remoteJid || chatJid
targetJid(deletedMsgKeyJid, chatJid) ==
  IF deletedMsgKeyJid # NoJid THEN deletedMsgKeyJid ELSE chatJid

\* A mutant: a notice that matches no entry goes on to the fallback send.
handleAntiDeleteHeadNoCheck(mek, store) ==
  IF ~ANTI_DELETE_ENABLED \/ ~IsDeletion(mek)
  THEN [IdleCall EXCEPT !.pc = "done"]
  ELSE [IdleCall EXCEPT !.pc = "fallback", !.id = mek.delId, !.looked = TRUE,
                        !.matched = MapHas(store, mek.delId),
                        !.target = targetJid(mek.delJid, HomeChat),
                        !.chat = HomeChat]

\* module.js:218-286: handleAntiDelete from its entry to its first await (or return).
handleAntiDeleteHead(mek, store) ==
  IF ~ANTI_DELETE_ENABLED \/ ~IsDeletion(mek)
  THEN [IdleCall EXCEPT !.pc = "done"]
  ELSE IF ~MapHas(store, mek.delId)
  THEN [IdleCall EXCEPT !.pc = "done", !.id = mek.delId, !.looked = TRUE,
                        !.removed = TRUE]
  ELSE LET storedMessage == MapGet(store, mek.delId)
       IN [IdleCall EXCEPT
             !.pc = IF BOT_OWNER THEN "report" ELSE "resend",
             !.id = mek.delId, !.looked = TRUE, !.matched = TRUE,
             !.target = targetJid(mek.delJid, storedMessage.remoteJid),
             !.chat = storedMessage.remoteJid,
             !.kind = storedMessage.kind, !.text = storedMessage.text]

\* A Matrix.sendMessage of the handler, with how it settled. "original" is the
\* retained message itself (module.js:292-307; the recovered marker put on a
\* media caption or file name is not recorded); "report" (271-285) and
\* "fallback" (324-329) are texts that carry messageContent; "info" (311-315)
\* is a text that does not.
Sent(call, to, what, ok) ==
  Append(call.sends,
         [to |-> to, what |-> what, ok |-> ok,
          kind |-> IF what = "original" THEN call.kind ELSE "text",
          text |-> CASE what = "original" -> call.text
                     [] what = "info" -> ""
                     [] OTHER -> messageContent(call.kind, call.text)])

\* The meks handleAntiDelete is invoked with directly.
InvokedMeks ==
  {Mek(NoticeId, FALSE, HomeChat, "protocolMessage", "", pt, did, djid) :
     pt \in {0, 1}, did \in MsgIds, djid \in Chats \cup {NoJid}}

\* module.js:216: handleAntiDelete(mek, Matrix) is called.
handleAntiDelete(c, mek) ==
  /\ calls[c].pc \in {"idle", "done"}
  /\ calls' = [calls EXCEPT ![c] = handleAntiDeleteHead(mek, messageStore)]
  /\ UNCHANGED <<ANTI_DELETE_ENABLED, BOT_OWNER, messageStore, now, recency, lastEvent>>
  /\ UNCHANGED <<lifeVars, auxVars>>

\* module.js:285: the report send to BOT_OWNER settles; a rejection reaches
\* the outer catch (module.js:336), which ends the handler.
adReportSettled(c, ok) ==
  /\ calls[c].pc = "report"
  /\ calls' = [calls EXCEPT ![c] =
       [calls[c] EXCEPT !.pc = IF ok THEN "resend" ELSE "done",
                        !.sends = Sent(calls[c], "BOT_OWNER", "report", ok),
                        !.removed = ~MapHas(messageStore, calls[c].id)]]
  /\ UNCHANGED <<ANTI_DELETE_ENABLED, BOT_OWNER, messageStore, now, recency, lastEvent>>
  /\ UNCHANGED <<lifeVars, auxVars>>

\* module.js:307: the resend of the original settles. Success: the
\* supplementary notice for text kinds (310), else the delete (333).
\* Rejection: the fallback of the inner catch (320-329).
adResendSettled(c, ok) ==
  /\ calls[c].pc = "resend"
  /\ LET call == calls[c]
         isText == messageType(call.kind) \in {"Text", "Extended Text"}
         finished == ok /\ ~isText
         store1 == IF finished THEN MapDelete(messageStore, call.id) ELSE messageStore
     IN /\ messageStore' = store1
        /\ calls' = [calls EXCEPT ![c] =
             [call EXCEPT !.pc = IF ~ok THEN "fallback"
                                 ELSE IF isText THEN "info" ELSE "done",
                          !.sends = Sent(call, call.target, "original", ok),
                          !.removed = ~MapHas(store1, call.id)]]
  /\ UNCHANGED <<ANTI_DELETE_ENABLED, BOT_OWNER, now, recency, lastEvent>>
  /\ UNCHANGED <<lifeVars, auxVars>>

\* module.js:315: the supplementary notice settles; it is inside the inner
\* try, so its rejection also leads to the fallback.
adInfoSettled(c, ok) ==
  /\ calls[c].pc = "info"
  /\ LET call == calls[c]
         store1 == IF ok THEN MapDelete(messageStore, call.id) ELSE messageStore
     IN /\ messageStore' = store1
        /\ calls' = [calls EXCEPT ![c] =
             [call EXCEPT !.pc = IF ok THEN "done" ELSE "fallback",
                          !.sends = Sent(call, call.target, "info", ok),
                          !.removed = ~MapHas(store1, call.id)]]
  /\ UNCHANGED <<ANTI_DELETE_ENABLED, BOT_OWNER, now, recency, lastEvent>>
  /\ UNCHANGED <<lifeVars, auxVars>>

\* A mutant: a rejected fallback send leaves the handler as an exception.
adFallbackSettledUncaught(c, ok) ==
  /\ calls[c].pc = "fallback"
  /\ LET call == calls[c]
         store1 == IF ok THEN MapDelete(messageStore, call.id) ELSE messageStore
     IN /\ messageStore' = store1
        /\ calls' = [calls EXCEPT ![c] =
             [call EXCEPT !.pc = IF ok THEN "done" ELSE "threw",
                          !.sends = Sent(call, call.target, "fallback", ok),
                          !.removed = ~MapHas(store1, call.id)]]
  /\ UNCHANGED <<ANTI_DELETE_ENABLED, BOT_OWNER, now, recency, lastEvent>>
  /\ UNCHANGED <<lifeVars, auxVars>>

\* module.js:329: the fallback send settles. Success: the delete (333).
\* Rejection: thrown out of the inner catch to the outer catch (336).
adFallbackSettled(c, ok) ==
  /\ calls[c].pc = "fallback"
  /\ LET call == calls[c]
         store1 == IF ok THEN MapDelete(messageStore, call.id) ELSE messageStore
     IN /\ messageStore' = store1
        /\ calls' = [calls EXCEPT ![c] =
             [call EXCEPT !.pc = "done",
                          !.sends = Sent(call, call.target, "fallback", ok),
                          !.removed = ~MapHas(store1, call.id)]]
  /\ UNCHANGED <<ANTI_DELETE_ENABLED, BOT_OWNER, now, recency, lastEvent>>
  /\ UNCHANGED <<lifeVars, auxVars>>

(* ====================== messages.upsert dispatch ====================== *)
\* module.js:774-776: the guards of the feature handler before handleAntiDelete.
featureGuardsPass(mek) ==
  mek.kind # "none" /\ ~mek.fromMe /\ mek.kind # "protocolMessage"

NoEvent == [notice |-> FALSE, matched |-> FALSE, adReached |-> FALSE, lookup |-> FALSE]

\* One messages.upsert event: the store handler (module.js:729-741), then the
\* feature handler (module.js:770-779) up to the return of handleAntiDelete's
\* synchronous head. No deletion notice passes the guards, so the head never
\* starts a recovery here.
messagesUpsert(mek) ==
  LET store1 == IF Retains(mek) THEN storePut(messageStore, mek, now) ELSE messageStore
      reached == featureGuardsPass(mek)
      head == handleAntiDeleteHead(mek, store1)
  IN /\ reached /\ head.matched => \E c \in Calls : calls[c].pc \in {"idle", "done"}
     /\ messageStore' = store1
     /\ lastEvent' = IF IsDeletion(mek) /\ ~mek.fromMe
                      THEN [notice |-> TRUE, matched |-> MapHas(store1, mek.delId),
                            adReached |-> reached, lookup |-> reached /\ head.looked]
                      ELSE NoEvent
     /\ calls' = IF reached /\ head.matched
                 THEN LET c == CHOOSE c \in Calls : calls[c].pc \in {"idle", "done"}
                      IN [calls EXCEPT ![c] = head]
                 ELSE calls
     /\ UNCHANGED <<ANTI_DELETE_ENABLED, BOT_OWNER, now, recency>>
     /\ UNCHANGED <<lifeVars, auxVars>>

\* The store handler alone (module.js:729-741): one put, with the history of
\* the puts kept next to it.
storeHandler(mek) ==
  /\ Retains(mek)
  /\ messageStore' = storePut(messageStore, mek, now)
  /\ recency' = Touch(recency, mek.id)
  /\ UNCHANGED <<ANTI_DELETE_ENABLED, BOT_OWNER, now, calls, lastEvent>>
  /\ UNCHANGED <<lifeVars, auxVars>>

\* Date.now() advances.
Tick ==
  /\ now < MaxTime
  /\ now' = now + 1
  /\ UNCHANGED <<ANTI_DELETE_ENABLED, BOT_OWNER, messageStore, calls, recency, lastEvent>>
  /\ UNCHANGED <<lifeVars, auxVars>>

\* handleAutoJoinGroups before it is called. thrown and paced are history:
\* what the accept of each attempt did, and the groups after which the
\* inter-attempt delay (module.js:503) was awaited; summary is how the
\* summary send (module.js:537) settled. caller is who called it (the open
\* handler or a timer), sessionOpen whether its session handle is open, and
\* escaped that the rejection of the run reached no handler.
IdleRun ==
  [pc |-> "idle", i |-> 0, joinedCount |-> 0, alreadyInCount |-> 0, failedCount |-> 0,
   results |-> <<>>, thrown |-> <<>>, paced |-> {}, summary |-> "none",
   caller |-> "none", sessionOpen |-> FALSE, escaped |-> FALSE]

\* A file: whether it exists, and its bytes.
NoFile == [exists |-> FALSE, data |-> <<>>]
FileOf(bytes) == [exists |-> TRUE, data |-> bytes]
\* No SESSION_ID configured.
NoSessionId == [set |-> FALSE, lead |-> 0, marker |-> FALSE, rest |-> <<>>]
\* init() before it runs. hadFile and log are history: whether credsPath
\* existed when init() looked, and the steps taken, in order.
IdleBoot == [pc |-> "boot", hadFile |-> FALSE, log |-> <<>>]

\* Every status feature switched off.
TogglesOff ==
  [AUTO_VIEW_STATUS |-> FALSE, AUTO_LIKE_STATUS |-> FALSE, AUTO_STATUS_SEEN |-> FALSE,
   AUTO_STATUS_REPLY |-> FALSE, AUTO_REACT |-> FALSE]
\* The feature handler with no event in hand.
IdleFeat == [pc |-> "idle", chat |-> NoJid, fromJid |-> NoJid, passed |-> FALSE]

AuxIdle ==
  /\ run = IdleRun
  /\ sessionId = NoSessionId /\ credsFile = NoFile /\ boot = IdleBoot
  /\ toggles = TogglesOff /\ feat = IdleFeat /\ issued = {}
  /\ staleUse = [h \in Handles |-> FALSE]

LifeIdle ==
  /\ credsOnDisk = TRUE /\ SESSION_ID = "none" /\ useQR = FALSE
  /\ initialConnection = TRUE /\ pcInit = "boot" /\ initRuns = 0
  /\ startCalls = 0 /\ startsPending = 0 /\ exited = FALSE /\ nHandles = 0
  /\ hstate = [h \in Handles |-> "none"]
  /\ closeCause = [h \in Handles |-> "none"]
  /\ opc = [h \in Handles |-> "idle"]
  /\ firstBranch = [h \in Handles |-> FALSE]
  /\ openRecon = [h \in Handles |-> 0]
  /\ timerOn = [h \in Handles |-> FALSE]
  /\ timerRuns = 0

InitStore ==
  /\ ANTI_DELETE_ENABLED \in BOOLEAN
  /\ BOT_OWNER \in BOOLEAN
  /\ messageStore = <<>>
  /\ now = 0
  /\ calls = [c \in Calls |-> IdleCall]
  /\ recency = <<>>
  /\ lastEvent = NoEvent
  /\ LifeIdle
  /\ AuxIdle

\* handleAntiDelete invoked directly, interleaved with inbound messages.
NextStore ==
  \/ Tick
  \/ \E mek \in ContentMeks : messagesUpsert(mek)
  \/ \E c \in SoloCalls, mek \in InvokedMeks : handleAntiDelete(c, mek)
  \/ \E c \in SoloCalls, ok \in BOOLEAN : adReportSettled(c, ok)
  \/ \E c \in SoloCalls, ok \in BOOLEAN : adResendSettled(c, ok)
  \/ \E c \in SoloCalls, ok \in BOOLEAN : adInfoSettled(c, ok)
  \/ \E c \in SoloCalls, ok \in BOOLEAN : adFallbackSettled(c, ok)
SpecStore == InitStore /\ [][NextStore]_vars

\* Two invocations of handleAntiDelete interleaved at their await points.
NextOverlap ==
  \/ \E mek \in ContentMeks : messagesUpsert(mek)
  \/ \E c \in Calls, mek \in InvokedMeks : handleAntiDelete(c, mek)
  \/ \E c \in Calls, ok \in BOOLEAN : adReportSettled(c, ok)
  \/ \E c \in Calls, ok \in BOOLEAN : adResendSettled(c, ok)
  \/ \E c \in Calls, ok \in BOOLEAN : adInfoSettled(c, ok)
  \/ \E c \in Calls, ok \in BOOLEAN : adFallbackSettled(c, ok)
SpecOverlap == InitStore /\ [][NextOverlap]_vars

\* The inbound event stream as the handlers registered by start() see it.
NextUpsert ==
  \/ Tick
  \/ \E mek \in ContentMeks \cup NoticeMeks : messagesUpsert(mek)
SpecUpsert == InitStore /\ [][NextUpsert]_vars

\* Sequences of puts, with no delete.
NextPuts ==
  \/ Tick
  \/ \E mek \in ContentMeks : storeHandler(mek)
SpecPuts == InitStore /\ [][NextPuts]_vars


(* ======================== connection lifecycle ======================== *)
\* The shapes of config.SESSION_ID that init() tells apart:
\*   "absent"        no SESSION_ID, or one without the marker "Buddy~"
\*   "gzipInline"    "Buddy~" + base64 of gzip data
\*   "plainInline"   "Buddy~" + base64 of bytes without the gzip magic header
\*   "legacyPair"    the marker inside the string, followed by fileID#key
\*   "legacyNoPair"  the marker inside the string, no '#' after it
SessionShapes == {"absent", "gzipInline", "plainInline", "legacyPair", "legacyNoPair"}
startsWithMarker(sid) == sid \in {"gzipInline", "plainInline"}
includesMarker(sid) == sid \in {"gzipInline", "plainInline", "legacyPair", "legacyNoPair"}

\* module.js:117-176: the result of loadGiftedSession().
loadGiftedSession(sid) == sid = "gzipInline"
\* module.js:178-213: the result of downloadLegacySession(); downloaded says
\* whether the archive download succeeds.
downloadLegacySession(sid, downloaded) == sid = "legacyPair" /\ downloaded

CloseCauses == {"loggedOut", "other", "noCause"}

\* A mutant: every close reconnects.
shouldReconnectAlways(cause) == TRUE
\* A mutant: only a close that carries an error reconnects.
shouldReconnectOnError(cause) == cause = "other"

\* module.js:684: lastDisconnect.error?.output?.statusCode !== DisconnectReason.loggedOut
shouldReconnect(cause) == cause # "loggedOut"

Live(h) == hstate[h] \in {"connecting", "open"}
\* The handle has closed and makeWASocket has constructed a newer one.
Stale(h) == hstate[h] = "closed" /\ nHandles > h

\* module.js:813-854: init() runs the bootstrap precedence and calls start().
init ==
  /\ pcInit = "boot"
  /\ \E downloaded \in BOOLEAN :
       LET ready == IF credsOnDisk THEN TRUE
                    ELSE IF startsWithMarker(SESSION_ID) THEN loadGiftedSession(SESSION_ID)
                    ELSE IF includesMarker(SESSION_ID)
                         THEN downloadLegacySession(SESSION_ID, downloaded)
                    ELSE FALSE
       IN /\ credsOnDisk' = ready
          /\ useQR' = ~ready
  /\ pcInit' = "started"
  /\ initRuns' = initRuns + 1
  /\ startCalls' = startCalls + 1
  /\ startsPending' = startsPending + 1
  /\ UNCHANGED <<SESSION_ID, initialConnection, exited, nHandles, hstate, closeCause,
                 opc, firstBranch, openRecon, timerOn, timerRuns>>
  /\ UNCHANGED <<storeVars, auxVars>>

\* module.js:662-805: a call of start() gets through its awaits, constructs
\* the session handle, registers its handlers and its setInterval.
start ==
  /\ ~exited /\ startsPending > 0 /\ nHandles < MaxStarts
  /\ LET h == nHandles + 1
     IN /\ nHandles' = h
        /\ hstate' = [hstate EXCEPT ![h] = "connecting"]
        /\ timerOn' = [timerOn EXCEPT ![h] = TRUE]
  /\ startsPending' = startsPending - 1
  /\ UNCHANGED <<credsOnDisk, SESSION_ID, useQR, initialConnection, pcInit, initRuns,
                 startCalls, exited, closeCause, opc, firstBranch, openRecon, timerRuns>>
  /\ UNCHANGED <<storeVars, auxVars>>

\* module.js:807-810: a step of start() throws; the catch calls process.exit(1).
startThrows ==
  /\ ~exited /\ startsPending > 0
  /\ exited' = TRUE
  /\ startsPending' = startsPending - 1
  /\ UNCHANGED <<credsOnDisk, SESSION_ID, useQR, initialConnection, pcInit, initRuns,
                 startCalls, nHandles, hstate, closeCause, opc, firstBranch, openRecon,
                 timerOn, timerRuns>>
  /\ UNCHANGED <<storeVars, auxVars>>

\* A mutant: the reconnect branch sends the connect message without reconciling.
connectionOpenNoReconcile(h) ==
  /\ ~exited /\ hstate[h] = "connecting"
  /\ hstate' = [hstate EXCEPT ![h] = "open"]
  /\ IF initialConnection
     THEN /\ opc' = [opc EXCEPT ![h] = "settle"]
          /\ firstBranch' = [firstBranch EXCEPT ![h] = TRUE]
          /\ UNCHANGED openRecon
     ELSE /\ opc' = [opc EXCEPT ![h] = "notify"]
          /\ UNCHANGED <<firstBranch, openRecon>>
  /\ UNCHANGED <<credsOnDisk, SESSION_ID, useQR, initialConnection, pcInit, initRuns,
                 startCalls, startsPending, exited, nHandles, closeCause, timerOn,
                 timerRuns>>
  /\ UNCHANGED <<storeVars, auxVars>>

\* module.js:690-717: connection.update 'open' up to the handler's first await:
\* the settle delay of the initialConnection branch (699), or the call of
\* handleAutoJoinGroups of the reconnect branch (717).
connectionOpen(h) ==
  /\ ~exited /\ hstate[h] = "connecting"
  /\ hstate' = [hstate EXCEPT ![h] = "open"]
  /\ IF initialConnection
     THEN /\ opc' = [opc EXCEPT ![h] = "settle"]
          /\ firstBranch' = [firstBranch EXCEPT ![h] = TRUE]
          /\ UNCHANGED openRecon
     ELSE /\ opc' = [opc EXCEPT ![h] = "recon"]
          /\ openRecon' = [openRecon EXCEPT ![h] = @ + 1]
          /\ UNCHANGED firstBranch
  /\ UNCHANGED <<credsOnDisk, SESSION_ID, useQR, initialConnection, pcInit, initRuns,
                 startCalls, startsPending, exited, nHandles, closeCause, timerOn,
                 timerRuns>>
  /\ UNCHANGED <<storeVars, auxVars>>

\* module.js:683-689: the body of the connection.update 'close' branch.
closeHandler(h, cause) ==
  /\ closeCause' = [closeCause EXCEPT ![h] = cause]
  /\ IF shouldReconnect(cause)
     THEN /\ startCalls < MaxStarts
          /\ startCalls' = startCalls + 1
          /\ startsPending' = startsPending + 1
     ELSE UNCHANGED <<startCalls, startsPending>>

\* The session handle h reports its close.
connectionClose(h, cause) ==
  /\ ~exited /\ Live(h)
  /\ hstate' = [hstate EXCEPT ![h] = "closed"]
  /\ closeHandler(h, cause)
  /\ UNCHANGED <<credsOnDisk, SESSION_ID, useQR, initialConnection, pcInit, initRuns,
                 exited, nHandles, opc, firstBranch, openRecon, timerOn, timerRuns>>
  /\ UNCHANGED <<storeVars, auxVars>>

\* A session handle that has closed reports a close once more.
connectionCloseAgain(h, cause) ==
  /\ ~exited /\ hstate[h] = "closed"
  /\ closeHandler(h, cause)
  /\ UNCHANGED <<credsOnDisk, SESSION_ID, useQR, initialConnection, pcInit, initRuns,
                 exited, nHandles, hstate, opc, firstBranch, openRecon, timerOn,
                 timerRuns>>
  /\ UNCHANGED <<storeVars, auxVars>>

\* module.js:699-703: the settle delay is over; handleAutoJoinGroups is called
\* and issues its first accept (398) on the handle of this handler.
settleElapsedStep(h) ==
  /\ ~exited /\ opc[h] = "settle"
  /\ opc' = [opc EXCEPT ![h] = "reconFirst"]
  /\ openRecon' = [openRecon EXCEPT ![h] = @ + 1]
  /\ UNCHANGED <<credsOnDisk, SESSION_ID, useQR, initialConnection, pcInit, initRuns,
                 startCalls, startsPending, exited, nHandles, hstate, closeCause,
                 firstBranch, timerOn, timerRuns>>
  /\ UNCHANGED <<storeVars, reconVars, bootVars, statusVars>>

settleElapsed(h) == settleElapsedStep(h) /\ UNCHANGED handleVars
\* The same step, with the history of the handle its command went to.
settleElapsedTraced(h) ==
  /\ settleElapsedStep(h)
  /\ staleUse' = [staleUse EXCEPT ![h] = @ \/ Stale(h)]

\* module.js:703-707, 717-720: handleAutoJoinGroups has returned;
\* sendConnectMessage is called.
reconcileReturned(h) ==
  /\ ~exited /\ opc[h] \in {"reconFirst", "recon"}
  /\ opc' = [opc EXCEPT ![h] = IF opc[h] = "reconFirst" THEN "notifyFirst" ELSE "notify"]
  /\ UNCHANGED <<credsOnDisk, SESSION_ID, useQR, initialConnection, pcInit, initRuns,
                 startCalls, startsPending, exited, nHandles, hstate, closeCause,
                 firstBranch, openRecon, timerOn, timerRuns>>
  /\ UNCHANGED <<storeVars, auxVars>>

\* module.js:564, 703, 717: handleAutoJoinGroups has thrown to the open
\* handler, which awaits it without a try: the handler ends there, before
\* sendConnectMessage and before the flag is cleared, and its rejection is
\* unhandled, which ends the process or not, as Node.js is set up.
reconcileRaised(h, fatal) ==
  /\ ~exited /\ opc[h] \in {"reconFirst", "recon"}
  /\ opc' = [opc EXCEPT ![h] = "raised"]
  /\ exited' = fatal
  /\ UNCHANGED <<credsOnDisk, SESSION_ID, useQR, initialConnection, pcInit, initRuns,
                 startCalls, startsPending, nHandles, hstate, closeCause,
                 firstBranch, openRecon, timerOn, timerRuns>>
  /\ UNCHANGED <<storeVars, auxVars>>

\* module.js:707-712, 720: sendConnectMessage has returned; the
\* initialConnection branch clears the flag (709).
connectMessageReturned(h) ==
  /\ ~exited /\ opc[h] \in {"notifyFirst", "notify"}
  /\ opc' = [opc EXCEPT ![h] = "done"]
  /\ initialConnection' = IF opc[h] = "notifyFirst" THEN FALSE ELSE initialConnection
  /\ UNCHANGED <<credsOnDisk, SESSION_ID, useQR, pcInit, initRuns, startCalls,
                 startsPending, exited, nHandles, hstate, closeCause, firstBranch,
                 openRecon, timerOn, timerRuns>>
  /\ UNCHANGED <<storeVars, auxVars>>

\* module.js:802-805: the interval of handle h fires and calls
\* handleAutoJoinGroups(Matrix) without awaiting it; the run issues its first
\* accept (398) on that handle, the Matrix of the closure.
timerFiresStep(h) ==
  /\ ~exited /\ timerOn[h] /\ timerRuns < MaxTimerRuns
  /\ timerRuns' = timerRuns + 1
  /\ UNCHANGED <<credsOnDisk, SESSION_ID, useQR, initialConnection, pcInit, initRuns,
                 startCalls, startsPending, exited, nHandles, hstate, closeCause, opc,
                 firstBranch, openRecon, timerOn>>
  /\ UNCHANGED <<storeVars, reconVars, bootVars, statusVars>>

timerFires(h) == timerFiresStep(h) /\ UNCHANGED handleVars
\* The same step, with the history of the handle its command went to.
timerFiresTraced(h) ==
  /\ timerFiresStep(h)
  /\ staleUse' = [staleUse EXCEPT ![h] = @ \/ Stale(h)]

StoreIdle ==
  /\ ANTI_DELETE_ENABLED = FALSE /\ BOT_OWNER = FALSE /\ messageStore = <<>>
  /\ now = 0 /\ calls = [c \in Calls |-> IdleCall] /\ recency = <<>>
  /\ lastEvent = NoEvent

Init ==
  /\ credsOnDisk \in BOOLEAN
  /\ SESSION_ID \in SessionShapes
  /\ useQR = FALSE
  /\ initialConnection = TRUE
  /\ pcInit = "boot" /\ initRuns = 0 /\ startCalls = 0 /\ startsPending = 0
  /\ exited = FALSE /\ nHandles = 0
  /\ hstate = [h \in Handles |-> "none"]
  /\ closeCause = [h \in Handles |-> "none"]
  /\ opc = [h \in Handles |-> "idle"]
  /\ firstBranch = [h \in Handles |-> FALSE]
  /\ openRecon = [h \in Handles |-> 0]
  /\ timerOn = [h \in Handles |-> FALSE]
  /\ timerRuns = 0
  /\ StoreIdle
  /\ AuxIdle

\* Every session handle reports at most one close, as the protocol engine does.
Next ==
  \/ init
  \/ start
  \/ startThrows
  \/ \E h \in Handles : connectionOpen(h)
  \/ \E h \in Handles, cause \in CloseCauses : connectionClose(h, cause)
  \/ \E h \in Handles : settleElapsed(h)
  \/ \E h \in Handles : reconcileReturned(h)
  \/ \E h \in Handles : connectMessageReturned(h)
  \/ \E h \in Handles : timerFires(h)
Spec == Init /\ [][Next]_vars

\* As Spec, and a closed session handle may report its close again.
NextRepeat ==
  \/ Next
  \/ \E h \in Handles, cause \in CloseCauses : connectionCloseAgain(h, cause)
SpecRepeat == Init /\ [][NextRepeat]_vars

\* As Spec, and the reconcile run of an open handler may throw.
NextOpen ==
  \/ Next
  \/ \E h \in Handles, fatal \in BOOLEAN : reconcileRaised(h, fatal)
SpecOpen == Init /\ [][NextOpen]_vars

\* As Spec, keeping for every accept-invite command the handle it went to.
NextStale ==
  \/ init
  \/ start
  \/ startThrows
  \/ \E h \in Handles : connectionOpen(h)
  \/ \E h \in Handles, cause \in CloseCauses : connectionClose(h, cause)
  \/ \E h \in Handles : settleElapsedTraced(h)
  \/ \E h \in Handles : reconcileReturned(h)
  \/ \E h \in Handles : connectMessageReturned(h)
  \/ \E h \in Handles : timerFiresTraced(h)
SpecStale == Init /\ [][NextStale]_vars

(* ======================= membership reconciler ======================== *)
\* module.js:63-97: MANDATORY_GROUPS, each entry named by its position.
MANDATORY_GROUPS == 1..MaxGroups

\* The message of an error, as the set of the words it contains.
ErrorTexts ==
  {{"closed"}, {"already"}, {"invalid"}, {"limit"}, {"invite", "rate"},
   {"already", "invite"}}
\* String.prototype.includes on such a message.
includes(text, word) == word \in text
\* The message of the TypeError raised by error.message.includes when the
\* thrown value has no message.
TypeErrorText == {"TypeError"}

\* What Matrix.groupAcceptInvite (module.js:398) does: it resolves, rejects
\* with an error that has a message, or rejects with a value that has none.
Accepted == [threw |-> FALSE, hasMessage |-> FALSE, text |-> {}]
Rejected(text) == [threw |-> TRUE, hasMessage |-> TRUE, text |-> text]
RejectedBare == [threw |-> TRUE, hasMessage |-> FALSE, text |-> {}]
AcceptOutcomes == {Accepted, RejectedBare} \cup {Rejected(text) : text \in ErrorTexts}
\* The rejection of a command given to a session handle that is not open.
ConnectionClosed == Rejected({"closed"})

\* A value returned by joinGroupByInviteCode; raised says that the function
\* threw instead. error is the fixed text of the class, or "error.message"
\* with the message itself next to it.
JoinResult(success, alreadyInGroup, error, message) ==
  [raised |-> FALSE, success |-> success, alreadyInGroup |-> alreadyInGroup,
   error |-> error, message |-> message]
JoinRaised(message) ==
  [raised |-> TRUE, success |-> FALSE, alreadyInGroup |-> FALSE,
   error |-> "error.message", message |-> message]

\* A mutant: every rejection of the accept is a failure carrying its message.
joinGroupByInviteCodeCatchPlain(error) ==
  IF ~error.hasMessage THEN JoinRaised(TypeErrorText)
  ELSE JoinResult(FALSE, FALSE, "error.message", error.text)

\* module.js:411-443: the catch of joinGroupByInviteCode.
joinGroupByInviteCodeCatch(error) ==
  IF ~error.hasMessage THEN JoinRaised(TypeErrorText)
  ELSE IF includes(error.text, "already") THEN JoinResult(TRUE, TRUE, "none", {})
  ELSE IF includes(error.text, "invite") \/ includes(error.text, "invalid")
  THEN JoinResult(FALSE, FALSE, "Invalid or expired invite link", {})
  ELSE IF includes(error.text, "rate") \/ includes(error.text, "limit")
  THEN JoinResult(FALSE, FALSE, "Rate limit", {})
  ELSE JoinResult(FALSE, FALSE, "error.message", error.text)

\* A mutant: the per-target catch counts the failure and records no outcome.
pushResultReturnedOnly(r, result) ==
  IF result.raised THEN r
  ELSE [r EXCEPT !.results = Append(@, [group |-> r.i, success |-> result.success,
                                        error |-> result.error, message |-> result.message,
                                        alreadyInGroup |-> result.alreadyInGroup])]

\* module.js:492-497, 509-513: results.push for the group at position r.i.
pushResult(r, result) ==
  [r EXCEPT !.results = Append(@, [group |-> r.i, success |-> result.success,
                                   error |-> result.error, message |-> result.message,
                                   alreadyInGroup |-> result.alreadyInGroup])]

\* module.js:520-548: after the loop: the summary send when a report
\* recipient is configured, else the return.
loopEnd(r) == [r EXCEPT !.pc = IF BOT_OWNER THEN "summary" ELSE "returned"]

\* module.js:499-504: the inter-attempt delay after every group but the last.
afterPush(r) ==
  IF r.i < MaxGroups THEN [r EXCEPT !.pc = "pace"] ELSE loopEnd(r)

\* module.js:458-466: the next iteration of the loop, or its end.
nextGroup(r) ==
  IF r.i < MaxGroups THEN [r EXCEPT !.pc = "accept", !.i = r.i + 1] ELSE loopEnd(r)

\* Who calls handleAutoJoinGroups: the connection.update 'open' handler
\* (module.js:703, 717) and the callback of setInterval (804).
Callers == {"open", "timer"}

\* module.js:447-466, 385-398: handleAutoJoinGroups is called and reaches the
\* accept of the first group. The open handler calls it on its open session
\* handle; a timer calls it whatever the state of its handle.
handleAutoJoinGroups(caller, sessionOpen) ==
  /\ run.pc = "idle"
  /\ caller = "open" => sessionOpen
  /\ run' = [IdleRun EXCEPT !.pc = "accept", !.i = 1, !.caller = caller,
                            !.sessionOpen = sessionOpen]
  /\ UNCHANGED <<storeVars, lifeVars, bootVars, statusVars, handleVars>>

\* module.js:398: the accept of group run.i settles; on a session handle that
\* is not open it is rejected. Resolved: the sync wait
\* of 404. Rejected: the catch of joinGroupByInviteCode (411-443) returns a
\* classified result, which the walk counts and records (468-497); or that
\* catch throws and the per-target catch (506-517) records a failure and
\* continues with the next group at once.
groupAcceptInviteSettled(outcome) ==
  /\ run.pc = "accept"
  /\ ~run.sessionOpen => outcome = ConnectionClosed
  /\ LET r == [run EXCEPT !.thrown = Append(@, [group |-> run.i, outcome |-> outcome])]
         result == joinGroupByInviteCodeCatch(outcome)
     IN run' =
          IF ~outcome.threw THEN [r EXCEPT !.pc = "sync"]
          ELSE IF result.raised
          THEN nextGroup(pushResult([r EXCEPT !.failedCount = @ + 1], result))
          ELSE IF result.success
          THEN afterPush(pushResult([r EXCEPT !.alreadyInCount = @ + 1], result))
          ELSE afterPush(pushResult([r EXCEPT !.failedCount = @ + 1], result))
  /\ UNCHANGED <<storeVars, lifeVars, bootVars, statusVars, handleVars>>

\* module.js:404-410, 468-479: the sync wait is over; joinGroupByInviteCode
\* returns success, the walk counts a join and waits for the group to sync.
syncElapsed ==
  /\ run.pc = "sync"
  /\ run' = [run EXCEPT !.pc = "info", !.joinedCount = @ + 1]
  /\ UNCHANGED <<storeVars, lifeVars, bootVars, statusVars, handleVars>>

\* module.js:479-504: that wait is over; the result is recorded.
infoElapsed ==
  /\ run.pc = "info"
  /\ run' = afterPush(pushResult(run, JoinResult(TRUE, FALSE, "none", {})))
  /\ UNCHANGED <<storeVars, lifeVars, bootVars, statusVars, handleVars>>

\* module.js:503: the inter-attempt delay is over.
paceElapsed ==
  /\ run.pc = "pace"
  /\ run' = nextGroup([run EXCEPT !.paced = @ \cup {run.i}])
  /\ UNCHANGED <<storeVars, lifeVars, bootVars, statusVars, handleVars>>

\* module.js:537-548: the summary send settles (a rejection is swallowed by
\* its .catch) and the run returns its summary.
summarySettled(ok) ==
  /\ run.pc = "summary"
  /\ ~run.sessionOpen => ~ok
  /\ run' = [run EXCEPT !.pc = "returned",
                        !.summary = IF ok THEN "sent" ELSE "rejected"]
  /\ UNCHANGED <<storeVars, lifeVars, bootVars, statusVars, handleVars>>

\* module.js:703, 717: the open handler awaits the run inside an async
\* listener without a try; module.js:804: the timer callback drops the
\* promise of the run. Neither handles a rejection of the run.
callerHandlesRejection(caller) == FALSE

\* module.js:537, 549-564: an error outside the per-target try: the summary
\* send throws instead of returning a promise, so its .catch never applies;
\* the outer catch logs, meets the same throw at 559 or gets to the throw of
\* 564, and the run rejects to its caller.
summaryThrows ==
  /\ run.pc = "summary"
  /\ run' = [run EXCEPT !.pc = "threw", !.summary = "threw",
                        !.escaped = ~callerHandlesRejection(run.caller)]
  /\ UNCHANGED <<storeVars, lifeVars, bootVars, statusVars, handleVars>>

InitReconcile ==
  /\ ANTI_DELETE_ENABLED = FALSE /\ BOT_OWNER \in BOOLEAN /\ messageStore = <<>>
  /\ now = 0 /\ calls = [c \in Calls |-> IdleCall] /\ recency = <<>>
  /\ lastEvent = NoEvent
  /\ LifeIdle
  /\ AuxIdle

\* One run of the reconciler over MANDATORY_GROUPS.
NextReconcile ==
  \/ \E caller \in Callers, sessionOpen \in BOOLEAN : handleAutoJoinGroups(caller, sessionOpen)
  \/ \E outcome \in AcceptOutcomes : groupAcceptInviteSettled(outcome)
  \/ syncElapsed
  \/ infoElapsed
  \/ paceElapsed
  \/ \E ok \in BOOLEAN : summarySettled(ok)
SpecReconcile == InitReconcile /\ [][NextReconcile]_vars

\* As SpecReconcile, and an unexpected error may end the run.
NextRaise ==
  \/ NextReconcile
  \/ summaryThrows
SpecRaise == InitReconcile /\ [][NextRaise]_vars

(* ======================== credential bootstrap ======================== *)
\* A SESSION_ID text is `lead` characters, then the marker "Buddy~" when
\* marker is TRUE, then the characters `rest`. A character of rest is its
\* index in the base64 alphabet (0..63) or Hash, the character '#'.
Hash == 64
SessionText(lead, marker, rest) ==
  [set |-> TRUE, lead |-> lead, marker |-> marker, rest |-> rest]

\* module.js:823: config.SESSION_ID && config.SESSION_ID.startsWith("Buddy~")
startsWithBuddy(sid) == sid.set /\ sid.marker /\ sid.lead = 0
\* module.js:835: config.SESSION_ID && config.SESSION_ID.includes("Buddy~")
includesBuddy(sid) == sid.set /\ sid.marker

\* Buffer.from(text, 'base64'): characters outside the alphabet are skipped,
\* four characters give three bytes, a tail of three gives two, of two one.
RECURSIVE base64Groups(_)
base64Groups(s) ==
  IF Len(s) < 2 THEN <<>>
  ELSE LET b1 == s[1] * 4 + (s[2] \div 16)
           b2 == (s[2] % 16) * 16 + (s[3] \div 4)
           b3 == (s[3] % 4) * 64 + s[4]
       IN IF Len(s) = 2 THEN <<b1>>
          ELSE IF Len(s) = 3 THEN <<b1, b2>>
          ELSE <<b1, b2, b3>> \o base64Groups(SubSeq(s, 5, Len(s)))
BufferFromBase64(text) == base64Groups(SelectSeq(text, LAMBDA c : c < Hash))

\* buffer.toString('base64'), without the '=' padding (which the decoder
\* does not need).
RECURSIVE toBase64(_)
toBase64(bytes) ==
  IF bytes = <<>> THEN <<>>
  ELSE LET b1 == bytes[1]
           b2 == IF Len(bytes) >= 2 THEN bytes[2] ELSE 0
           b3 == IF Len(bytes) >= 3 THEN bytes[3] ELSE 0
           s1 == b1 \div 4
           s2 == (b1 % 4) * 16 + (b2 \div 16)
           s3 == (b2 % 16) * 4 + (b3 \div 64)
           s4 == b3 % 64
       IN IF Len(bytes) = 1 THEN <<s1, s2>>
          ELSE IF Len(bytes) = 2 THEN <<s1, s2, s3>>
          ELSE <<s1, s2, s3, s4>> \o toBase64(SubSeq(bytes, 4, Len(bytes)))

\* The gzip container with its data held as a stored block: the magic bytes
\* 0x1f 0x8b, the method byte 8, the length of the data, the data, and a
\* checksum of the data (one byte here, a CRC-32 in the format).
RECURSIVE byteSum(_)
byteSum(bytes) == IF bytes = <<>> THEN 0 ELSE bytes[1] + byteSum(Tail(bytes))
checksum(bytes) == byteSum(bytes) % 256
gzip(bytes) == <<31, 139, 8, Len(bytes)>> \o bytes \o <<checksum(bytes)>>

\* module.js:143-144: zlib.gunzip; ok is FALSE when it fails with an error.
gunzip(buffer) ==
  LET data == SubSeq(buffer, 5, Len(buffer) - 1)
  IN IF /\ Len(buffer) >= 5
        /\ buffer[1] = 31 /\ buffer[2] = 139 /\ buffer[3] = 8
        /\ buffer[4] = Len(data)
        /\ buffer[Len(buffer)] = checksum(data)
     THEN [ok |-> TRUE, data |-> data]
     ELSE [ok |-> FALSE, data |-> <<>>]

\* module.js:145: decompressedBuffer.toString('utf-8') on single bytes: a
\* byte below 128 is its character, any other decodes to U+FFFD.
toStringUtf8(bytes) == [i \in DOMAIN bytes |-> IF bytes[i] < 128 THEN bytes[i] ELSE 65533]
\* module.js:160: the bytes fs.promises.writeFile writes for a string.
RECURSIVE utf8Bytes(_)
utf8Bytes(text) ==
  IF text = <<>> THEN <<>>
  ELSE (IF text[1] < 128 THEN <<text[1]>> ELSE <<239, 191, 189>>) \o utf8Bytes(Tail(text))

\* What a bootstrap step returns: ready is its boolean, raised says that it
\* threw instead, attempted that it got as far as decoding or downloading,
\* file is what it wrote to credsPath (NoFile when it wrote nothing).
StepResult(ready, raised, attempted, file) ==
  [ready |-> ready, raised |-> raised, attempted |-> attempted, file |-> file]
NotReady(attempted) == StepResult(FALSE, FALSE, attempted, NoFile)

\* A mutant: the decoded buffer is written as it is, without the gunzip.
loadGiftedSessionResultRaw(sid) ==
  IF ~startsWithBuddy(sid) THEN NotReady(FALSE)
  ELSE LET compressedBuffer == BufferFromBase64(sid.rest)
       IN IF Len(compressedBuffer) >= 2 /\ compressedBuffer[1] = 31
             /\ compressedBuffer[2] = 139
          THEN StepResult(TRUE, FALSE, TRUE, FileOf(compressedBuffer))
          ELSE NotReady(TRUE)

\* A mutant: no test of the magic bytes, and a failed gunzip is not caught.
loadGiftedSessionResultUnchecked(sid) ==
  IF ~startsWithBuddy(sid) THEN NotReady(FALSE)
  ELSE LET unzipped == gunzip(BufferFromBase64(sid.rest))
       IN IF unzipped.ok
          THEN StepResult(TRUE, FALSE, TRUE, FileOf(utf8Bytes(toStringUtf8(unzipped.data))))
          ELSE StepResult(FALSE, TRUE, TRUE, NoFile)

\* module.js:117-176: loadGiftedSession() on a SESSION_ID text.
loadGiftedSessionResult(sid) ==
  IF ~sid.set THEN NotReady(FALSE)
  ELSE IF ~startsWithBuddy(sid) THEN NotReady(FALSE)
  ELSE LET compressedBuffer == BufferFromBase64(sid.rest)
       IN IF Len(compressedBuffer) >= 2 /\ compressedBuffer[1] = 31
             /\ compressedBuffer[2] = 139
          THEN LET unzipped == gunzip(compressedBuffer)
               IN IF unzipped.ok
                  THEN StepResult(TRUE, FALSE, TRUE,
                                  FileOf(utf8Bytes(toStringUtf8(unzipped.data))))
                  ELSE NotReady(TRUE)
          ELSE NotReady(TRUE)

\* module.js:186-193: sessdata, the text after the marker, holds a '#'.
hasPair(sid) == includesBuddy(sid) /\ \E i \in DOMAIN sid.rest : sid.rest[i] = Hash

\* What the download of the archive gives (module.js:197-204).
DownloadFailed == [ok |-> FALSE, data |-> <<>>]
Downloaded(bytes) == [ok |-> TRUE, data |-> bytes]

\* module.js:178-213: downloadLegacySession() on a SESSION_ID text.
downloadLegacySessionResult(sid, download) ==
  IF ~sid.set THEN NotReady(FALSE)
  ELSE IF ~hasPair(sid) THEN NotReady(FALSE)
  ELSE IF download.ok THEN StepResult(TRUE, FALSE, TRUE, FileOf(download.data))
  ELSE NotReady(TRUE)

\* A step of init() and what it returned, for the history.
Logged(step, result) ==
  [step |-> step, ready |-> result.ready, raised |-> result.raised,
   attempted |-> result.attempted]
\* The call of start(), for the history.
CallOfStart == [step |-> "start", ready |-> FALSE, raised |-> FALSE, attempted |-> TRUE]
bootAfter(b, step, result) ==
  [b EXCEPT !.pc = "callStart", !.log = Append(@, Logged(step, result))]

\* module.js:813-835: init() looks for the credential file and picks a step.
initEnter ==
  /\ boot.pc = "boot"
  /\ boot' = IF credsFile.exists
             THEN bootAfter([boot EXCEPT !.hadFile = TRUE], "disk",
                            StepResult(TRUE, FALSE, TRUE, NoFile))
             ELSE IF startsWithBuddy(sessionId) THEN [boot EXCEPT !.pc = "gifted"]
             ELSE IF includesBuddy(sessionId) THEN [boot EXCEPT !.pc = "legacy"]
             ELSE [boot EXCEPT !.pc = "callStart"]
  /\ useQR' = IF ~credsFile.exists /\ ~includesBuddy(sessionId) THEN TRUE ELSE useQR
  /\ UNCHANGED <<credsOnDisk, SESSION_ID, initialConnection, pcInit, initRuns, startCalls,
                 startsPending, exited, nHandles, hstate, closeCause, opc, firstBranch,
                 openRecon, timerOn, timerRuns>>
  /\ UNCHANGED <<sessionId, credsFile>>
  /\ UNCHANGED <<storeVars, reconVars, statusVars, handleVars>>

\* The rest of a branch of init() after its step returned (module.js:827-834,
\* 839-846): a step that threw would leave init() without a call of start().
bootReturned(step, result) ==
  /\ boot' = [bootAfter(boot, step, result) EXCEPT
                !.pc = IF result.raised THEN "raised" ELSE "callStart"]
  /\ credsFile' = IF result.file.exists THEN result.file ELSE credsFile
  /\ credsOnDisk' = (credsOnDisk \/ result.file.exists)
  /\ useQR' = IF ~result.raised /\ ~result.ready THEN TRUE ELSE useQR
  /\ UNCHANGED <<SESSION_ID, initialConnection, pcInit, initRuns, startCalls,
                 startsPending, exited, nHandles, hstate, closeCause, opc, firstBranch,
                 openRecon, timerOn, timerRuns>>
  /\ UNCHANGED sessionId
  /\ UNCHANGED <<storeVars, reconVars, statusVars, handleVars>>

\* module.js:825: loadGiftedSession() has returned.
loadGiftedSessionReturned ==
  /\ boot.pc = "gifted"
  /\ bootReturned("inline", loadGiftedSessionResult(sessionId))

\* module.js:837: downloadLegacySession() has returned.
downloadLegacySessionReturned(download) ==
  /\ boot.pc = "legacy"
  /\ bootReturned("archive", downloadLegacySessionResult(sessionId, download))

\* module.js:819, 829, 833, 841, 845, 851: init() calls start().
initCallsStart ==
  /\ boot.pc = "callStart"
  /\ boot' = [boot EXCEPT !.pc = "started", !.log = Append(@, CallOfStart)]
  /\ pcInit' = "started"
  /\ initRuns' = initRuns + 1
  /\ startCalls' = startCalls + 1
  /\ startsPending' = startsPending + 1
  /\ UNCHANGED <<credsOnDisk, SESSION_ID, useQR, initialConnection, exited, nHandles,
                 hstate, closeCause, opc, firstBranch, openRecon, timerOn, timerRuns>>
  /\ UNCHANGED <<sessionId, credsFile>>
  /\ UNCHANGED <<storeVars, reconVars, statusVars, handleVars>>

\* Credential texts, as character codes: "{}" and "SE".
Docs == {<<123, 125>>, <<83, 69>>}
\* Buffers that are not a gzip of a text: bytes without the magic header, the
\* first magic byte alone, a gzip cut short, one with a wrong checksum, one
\* of a byte that is not a character, and nothing at all.
OtherBuffers ==
  {<<83, 69, 83>>, <<31, 7, 8>>, <<31, 139, 8, 2, 123>>,
   <<31, 139, 8, 1, 83, 84>>, gzip(<<200>>), <<>>}
\* The texts after the marker: base64 of the buffers, and the two halves of
\* a fileID#key pair.
Rests ==
  {toBase64(gzip(D)) : D \in Docs} \cup {toBase64(buffer) : buffer \in OtherBuffers}
  \cup {<<5, 6, Hash, 7, 8>>}
SessionTexts ==
  {NoSessionId}
  \cup {SessionText(lead, marker, rest) : lead \in {0, 1}, marker \in BOOLEAN, rest \in Rests}
Downloads == {DownloadFailed, Downloaded(<<123, 125>>)}

\* The shape of a SESSION_ID text.
ShapeOf(sid) ==
  IF ~includesBuddy(sid) THEN "absent"
  ELSE IF startsWithBuddy(sid)
  THEN (IF loadGiftedSessionResult(sid).ready THEN "gzipInline" ELSE "plainInline")
  ELSE IF hasPair(sid) THEN "legacyPair" ELSE "legacyNoPair"

InitBoot ==
  /\ sessionId \in SessionTexts
  /\ credsFile \in {NoFile, FileOf(<<123, 125>>)}
  /\ boot = IdleBoot
  /\ run = IdleRun
  /\ toggles = TogglesOff /\ feat = IdleFeat /\ issued = {}
  /\ staleUse = [h \in Handles |-> FALSE]
  /\ credsOnDisk = credsFile.exists
  /\ SESSION_ID = ShapeOf(sessionId)
  /\ useQR = FALSE
  /\ initialConnection = TRUE
  /\ pcInit = "boot" /\ initRuns = 0 /\ startCalls = 0 /\ startsPending = 0
  /\ exited = FALSE /\ nHandles = 0
  /\ hstate = [h \in Handles |-> "none"]
  /\ closeCause = [h \in Handles |-> "none"]
  /\ opc = [h \in Handles |-> "idle"]
  /\ firstBranch = [h \in Handles |-> FALSE]
  /\ openRecon = [h \in Handles |-> 0]
  /\ timerOn = [h \in Handles |-> FALSE]
  /\ timerRuns = 0
  /\ StoreIdle

\* init() step by step, up to the session handle of its start().
NextBoot ==
  \/ initEnter
  \/ loadGiftedSessionReturned
  \/ \E download \in Downloads : downloadLegacySessionReturned(download)
  \/ initCallsStart
  \/ start
  \/ startThrows
SpecBoot == InitBoot /\ [][NextBoot]_vars

(* ========================== status features =========================== *)
\* module.js:346, 361, 788: the chat id of status updates.
StatusJid == "status@broadcast"
\* mek.key.participant of a status update: the contact that posted it.
StatusAuthor == "author@s.whatsapp.net"
\* module.js:773: mek.key.participant || mek.key.remoteJid
fromJidOf(mek) == IF mek.remoteJid = StatusJid THEN StatusAuthor ELSE mek.remoteJid

\* Inbound events for the status features: a text, a protocol message and an
\* event without message, from the status chat, a private chat and a group,
\* sent by a contact or by the agent.
StatusMeks ==
  {Mek(1, fm, jid, kind, IF kind = "conversation" THEN TextOf(1) ELSE "", 1, NoId, NoJid) :
     fm \in BOOLEAN, jid \in Chats \cup {StatusJid},
     kind \in {"conversation", "protocolMessage", "none"}}

\* Something a handler issued for an event of chat `chat`.
Issue(feature, action, chat, to) ==
  [feature |-> feature, action |-> action, chat |-> chat, to |-> to]

\* module.js:344-346: handleAutoViewStatus marks the event as read.
autoViewApplies(t, chat) == t.AUTO_VIEW_STATUS /\ chat = StatusJid
\* A mutant: the like does not look at the chat.
autoLikeAppliesAnyChat(t, chat) == t.AUTO_LIKE_STATUS
\* module.js:359-361: handleAutoLikeStatus reacts to the event.
autoLikeApplies(t, chat) == t.AUTO_LIKE_STATUS /\ chat = StatusJid
\* module.js:788: the original status handling marks the event as read.
statusSeenApplies(t, chat) == chat = StatusJid /\ t.AUTO_STATUS_SEEN

\* module.js:787-795 entered: the read of the original status handling, or
\* the end of the handler.
enterSeen(f) ==
  IF statusSeenApplies(toggles, f.chat)
  THEN [f |-> [f EXCEPT !.pc = "seen"],
        out |-> {Issue("statusSeen", "readMessages", f.chat, f.chat)}]
  ELSE [f |-> [f EXCEPT !.pc = "done"], out |-> {}]

\* module.js:785 entered: the delay of handleAutoLikeStatus, or what follows it.
enterLike(f) ==
  IF autoLikeApplies(toggles, f.chat)
  THEN [f |-> [f EXCEPT !.pc = "likeDelay"], out |-> {}]
  ELSE enterSeen(f)

\* module.js:782 entered: the read of handleAutoViewStatus, or what follows it.
enterView(f) ==
  IF autoViewApplies(toggles, f.chat)
  THEN [f |-> [f EXCEPT !.pc = "view"],
        out |-> {Issue("autoView", "readMessages", f.chat, f.chat)}]
  ELSE enterLike(f)

\* One messages.upsert event, each handler up to its first await: the store
\* handler (module.js:729-741), the auto-react handler (756-768), and the
\* feature handler (770-788), in which handleAntiDelete returns at once
\* because no protocol message passes the guard of 776.
statusUpsert(mek) ==
  /\ feat.pc \in {"idle", "done"}
  /\ messageStore' = IF Retains(mek) THEN storePut(messageStore, mek, now) ELSE messageStore
  /\ LET reacts == IF ~mek.fromMe /\ toggles.AUTO_REACT /\ mek.kind # "none"
                   THEN {Issue("autoReact", "react", mek.remoteJid, mek.remoteJid)}
                   ELSE {}
         f0 == [IdleFeat EXCEPT !.chat = mek.remoteJid, !.fromJid = fromJidOf(mek)]
         entered == IF featureGuardsPass(mek)
                    THEN enterView([f0 EXCEPT !.passed = TRUE])
                    ELSE [f |-> [f0 EXCEPT !.pc = "done"], out |-> {}]
     IN /\ feat' = entered.f
        /\ issued' = reacts \cup entered.out
  /\ UNCHANGED <<ANTI_DELETE_ENABLED, BOT_OWNER, now, calls, recency, lastEvent>>
  /\ UNCHANGED toggles
  /\ UNCHANGED <<lifeVars, reconVars, bootVars, handleVars>>

\* What a step of the feature handler leaves as it is.
featFrame ==
  /\ UNCHANGED storeVars
  /\ UNCHANGED toggles
  /\ UNCHANGED <<lifeVars, reconVars, bootVars, handleVars>>

\* module.js:348: the read of handleAutoViewStatus settles; a rejection is
\* caught at 351 and the feature handler goes on.
viewSettled(ok) ==
  /\ feat.pc = "view"
  /\ feat' = enterLike(feat).f
  /\ issued' = issued \cup enterLike(feat).out
  /\ featFrame

\* module.js:364-375: the delay is over; the reaction is sent to the chat of
\* the event.
likeDelayElapsed ==
  /\ feat.pc = "likeDelay"
  /\ feat' = [feat EXCEPT !.pc = "like"]
  /\ issued' = issued \cup {Issue("autoLike", "react", feat.chat, feat.chat)}
  /\ featFrame

\* module.js:370-375: the reaction settles; a rejection is caught at 379.
likeSettled(ok) ==
  /\ feat.pc = "like"
  /\ feat' = enterSeen(feat).f
  /\ issued' = issued \cup enterSeen(feat).out
  /\ featFrame

\* module.js:789-793: the read of the original status handling settles.
\* Resolved: the reply to fromJid when AUTO_STATUS_REPLY is set. Rejected:
\* the catch of 796 ends the handler.
seenSettled(ok) ==
  /\ feat.pc = "seen"
  /\ IF ok /\ toggles.AUTO_STATUS_REPLY
     THEN /\ feat' = [feat EXCEPT !.pc = "reply"]
          /\ issued' = issued \cup {Issue("statusReply", "sendMessage", feat.chat, feat.fromJid)}
     ELSE /\ feat' = [feat EXCEPT !.pc = "done"]
          /\ UNCHANGED issued
  /\ featFrame

\* module.js:793: the reply settles.
replySettled(ok) ==
  /\ feat.pc = "reply"
  /\ feat' = [feat EXCEPT !.pc = "done"]
  /\ UNCHANGED issued
  /\ featFrame

InitStatus ==
  /\ toggles \in [{"AUTO_VIEW_STATUS", "AUTO_LIKE_STATUS", "AUTO_STATUS_SEEN",
                   "AUTO_STATUS_REPLY", "AUTO_REACT"} -> BOOLEAN]
  /\ feat = IdleFeat /\ issued = {}
  /\ staleUse = [h \in Handles |-> FALSE]
  /\ run = IdleRun
  /\ sessionId = NoSessionId /\ credsFile = NoFile /\ boot = IdleBoot
  /\ StoreIdle
  /\ LifeIdle

\* The event stream with the status features, one event at a time.
NextStatus ==
  \/ \E mek \in StatusMeks : statusUpsert(mek)
  \/ \E ok \in BOOLEAN : viewSettled(ok)
  \/ likeDelayElapsed
  \/ \E ok \in BOOLEAN : likeSettled(ok)
  \/ \E ok \in BOOLEAN : seenSettled(ok)
  \/ \E ok \in BOOLEAN : replySettled(ok)
SpecStatus == InitStatus /\ [][NextStatus]_vars

(* ============================== claims ================================ *)
AllSendsOk(call) == \A i \in DOMAIN call.sends : call.sends[i].ok

\* C1: when handleAntiDelete is invoked with a deletion notice whose key id
\* matches a retained plain-text message with content T, retention is
\* enabled and all sends succeed, it sends the text T to the original chat
\* (the chat of the retained message) and the cache no longer holds the id
\* when it returns.
C1_RecoveredTextGoesToOriginalChat ==
  \A c \in Calls :
    LET call == calls[c]
    IN (call.pc = "done" /\ call.matched /\ call.kind = "conversation" /\ AllSendsOk(call))
       => /\ \E i \in DOMAIN call.sends :
               /\ call.sends[i].what = "original"
               /\ call.sends[i].to = call.chat
               /\ call.sends[i].kind = "conversation"
               /\ call.sends[i].text = call.text
          /\ call.removed

\* C2: every deletion notice on the messages.upsert stream that was not sent
\* by the agent and whose key matches a retained message reaches
\* handleAntiDelete, and its lookup of the retention cache is performed.
C2_InboundNoticeReachesLookup ==
  (lastEvent.notice /\ lastEvent.matched) => (lastEvent.adReached /\ lastEvent.lookup)

\* C3: in every reachable state, under every interleaving of inbound message
\* events with the steps of delete-recovery handlers, the retention cache
\* holds at most StoreLimit entries.
C3_StoreNeverOverLimit == Len(messageStore) <= StoreLimit

\* C3 witness: the cache is full while a recovery is suspended at a send, and
\* the entry that recovery looked up has since been evicted by a put.
C3_FullStoreDuringRecovery ==
  /\ Len(messageStore) = StoreLimit
  /\ \E c \in Calls :
       /\ calls[c].pc \in {"report", "resend", "info", "fallback"}
       /\ ~MapHas(messageStore, calls[c].id)

\* The last n elements of a sequence, as a set.
LastOf(order, n) ==
  {order[i] : i \in {j \in DOMAIN order : j > Len(order) - n}}

\* C4: after any sequence of puts (no deletes), the retained ids are exactly
\* the StoreLimit most recently inserted ids, also when an id already present
\* is put again and when several puts carry the same timestamp.
C4_RetainsMostRecentlyInserted ==
  MapKeys(messageStore) = LastOf(recency, StoreLimit)

LoggedOut == \E h \in Handles : closeCause[h] = "loggedOut"

\* C5: once a session handle has reported a close with cause 'logged out',
\* start() is never called again and no new session handle is constructed.
C5_NoReconnectAfterLogout ==
  [][LoggedOut' => (startCalls' = startCalls /\ nHandles' = nHandles)]_vars

\* C5 witness: a reconnected session handle has reported the logout.
C5_LoggedOutAfterReconnect ==
  \E h \in Handles : h > 1 /\ closeCause[h] = "loggedOut" /\ hstate[h] = "closed"

C7_NoExitAfterRecoverableClose ==
  (exited /\ \E h \in Handles : hstate[h] = "closed") => LoggedOut

\* C8: for every open event of a session handle created by a reconnect, the
\* open handler calls handleAutoJoinGroups exactly once: no call before the
\* handler reaches it, one call from then on, whatever the timers run.
C8_ReconnectOpenReconcilesOnce ==
  \A h \in Handles :
    h > 1 => openRecon[h] = (IF opc[h] \in {"idle", "settle"} THEN 0 ELSE 1)

\* C8 witness: the open handler of a reconnected handle has finished, and a
\* timer has run in the meantime.
C8_ReconnectOpenHandled ==
  \E h \in Handles :
    h > 1 /\ opc[h] = "done" /\ ~firstBranch[h] /\ openRecon[h] = 1 /\ timerRuns > 0

\* C9: at any time at most one session handle is live (connecting or open)
\* and at most one connection attempt is in progress, for any sequence of
\* close events, repeated close events of one handle included.
C9_OneSessionAtATime ==
  Cardinality({h \in Handles : Live(h)}) + startsPending <= 1

\* C10: over the whole process lifetime the initialConnection branch of the
\* open handler is entered for at most one open event.
C10_FirstOpenBranchOnce ==
  Cardinality({h \in Handles : firstBranch[h]}) <= 1

\* The outcome recorded for the group at position i of a run.
ResultOf(r, i) == r.results[i]
\* What the accept of the i-th attempt of a run did.
ThrownAt(r, i) == r.thrown[i].outcome
\* The run attempted every group once, in list order, and recorded one
\* outcome for each, in the same order.
WalkedInOrder(r) ==
  /\ Len(r.thrown) = MaxGroups /\ Len(r.results) = MaxGroups
  /\ \A i \in MANDATORY_GROUPS : r.thrown[i].group = i /\ r.results[i].group = i
\* The counts of a run are the counts of the outcomes it recorded.
CountsMatch(r) ==
  /\ r.failedCount = Cardinality({i \in DOMAIN r.results : ~r.results[i].success})
  /\ r.alreadyInCount = Cardinality({i \in DOMAIN r.results : r.results[i].alreadyInGroup})
  /\ r.joinedCount + r.alreadyInCount + r.failedCount = Len(r.results)

\* C11 as stated: a run that has returned attempted every group once in list
\* order, and every group whose join threw is recorded and counted as a
\* failure of class 'other' (success false, the error being the thrown
\* message), whatever the text of the thrown error.
C11_EveryThrowIsOtherFailure ==
  run.pc = "returned" =>
    /\ WalkedInOrder(run) /\ CountsMatch(run)
    /\ \A i \in MANDATORY_GROUPS :
         ThrownAt(run, i).threw =>
           ~ResultOf(run, i).success /\ ResultOf(run, i).error = "error.message"

\* C11 amended: a throw of a group's join never aborts the walk: a run that
\* has returned attempted every group once in list order and recorded one
\* outcome per group. The outcome of a group whose join threw follows the
\* text of the error: "already" makes it a success (already a member);
\* otherwise it is a failure, of class invalid-or-expired for "invite" or
\* "invalid", else rate-limited for "rate" or "limit", else 'other' with the
\* thrown message; a thrown value without a message is an 'other' failure.
\* The counts of the summary are the counts of the recorded outcomes.
C11_ThrowsClassifiedWalkCompletes ==
  run.pc = "returned" =>
    /\ WalkedInOrder(run) /\ CountsMatch(run)
    /\ \A i \in MANDATORY_GROUPS :
         LET o == ThrownAt(run, i)
             res == ResultOf(run, i)
             invalid == {"invite", "invalid"} \cap o.text # {}
             limited == {"rate", "limit"} \cap o.text # {}
         IN o.threw =>
              /\ res.success = (o.hasMessage /\ "already" \in o.text)
              /\ res.alreadyInGroup = res.success
              /\ ~res.success =>
                   res.error = IF o.hasMessage /\ invalid
                               THEN "Invalid or expired invite link"
                               ELSE IF o.hasMessage /\ limited THEN "Rate limit"
                               ELSE "error.message"
              /\ (~res.success /\ res.error = "error.message") =>
                   res.message = IF o.hasMessage THEN o.text ELSE TypeErrorText

\* C11 witness: a run has returned in which the join of a group in the middle
\* of the list threw an error classified 'other', a later group's join threw
\* "already", and the first group was joined.
C11_ThrowMidWalkThenCompleted ==
  /\ run.pc = "returned"
  /\ \E i \in MANDATORY_GROUPS, j \in MANDATORY_GROUPS :
       /\ 1 < i /\ i < j
       /\ ThrownAt(run, i) = Rejected({"closed"})
       /\ ThrownAt(run, j).threw /\ "already" \in ThrownAt(run, j).text
       /\ ResultOf(run, j).success
  /\ run.joinedCount > 0

\* The entries of a bootstrap history for one step.
EntriesOf(b, step) == {i \in DOMAIN b.log : b.log[i].step = step}
\* The step got as far as doing its work (decoding, downloading).
Attempted(b, step) == \E i \in EntriesOf(b, step) : b.log[i].attempted
\* The step reported ready.
ReadyAt(b, step) == \E i \in EntriesOf(b, step) : b.log[i].ready
BootDecided(b) == b.pc \in {"callStart", "started"}

\* C12: once the bootstrap has decided, each step was attempted exactly when
\* its own applicability condition holds and every earlier step was
\* inapplicable or failed (order: on-disk file, compressed-inline blob, remote
\* archive): in particular a failed inline step is followed by the archive
\* step when the session identifier contains the marker and a '#'-separated
\* pair; and interactive pairing is signalled exactly when no step reported
\* ready.
C12_StepsCascadeInOrder ==
  BootDecided(boot) =>
    /\ Attempted(boot, "disk") <=> boot.hadFile
    /\ Attempted(boot, "inline") <=> (~boot.hadFile /\ startsWithBuddy(sessionId))
    /\ Attempted(boot, "archive") <=>
         (~boot.hadFile /\ ~ReadyAt(boot, "inline") /\ hasPair(sessionId))
    /\ useQR <=> ~\E step \in {"disk", "inline", "archive"} : ReadyAt(boot, step)

\* The SESSION_ID "Buddy~" + base64(gzip(D)).
InlineOf(D) == SessionText(0, TRUE, toBase64(gzip(D)))

NotInflatable(sid) ==
  LET buffer == BufferFromBase64(sid.rest)
  IN \/ Len(buffer) < 2 \/ buffer[1] # 31 \/ buffer[2] # 139
     \/ ~gunzip(buffer).ok

\* C14: when SESSION_ID is the marker followed by base64 of bytes that do not
\* start with the gzip magic header, or that fail to decompress, the inline
\* step returns not-ready as a value, throws nothing, and the credential file
\* stays unwritten.
C14_BadInlineBlobFallsThrough ==
  (startsWithBuddy(sessionId) /\ NotInflatable(sessionId) /\ EntriesOf(boot, "inline") # {}) =>
    /\ \A i \in EntriesOf(boot, "inline") : ~boot.log[i].ready /\ ~boot.log[i].raised
    /\ boot.pc # "raised"
    /\ ~credsFile.exists

\* C14 witness: init() has called start() for pairing after the inline step
\* met a gzip header whose data is cut short.
C14_TruncatedGzipFellThrough ==
  /\ sessionId = SessionText(0, TRUE, toBase64(<<31, 139, 8, 2, 123>>))
  /\ EntriesOf(boot, "inline") # {} /\ boot.pc = "started" /\ useQR

\* The status auto-engagement features.
StatusFeatures == {"autoView", "autoLike", "statusSeen", "statusReply"}

\* C15: for every combination of the toggles, nothing a status feature
\* issues (mark-as-read, reaction, status reply) is for an event whose chat
\* id differs from status@broadcast, and the feature handler is never inside
\* a status feature for such an event.
C15_StatusEngagementOnlyForStatusChat ==
  /\ \A e \in issued : e.feature \in StatusFeatures => e.chat = StatusJid
  /\ feat.pc \in {"view", "likeDelay", "like", "seen", "reply"} => feat.chat = StatusJid

\* C15 witness: with every status feature switched on, the feature handler
\* has finished an event of a private chat that passed its guards.
C15_PrivateChatEventAllTogglesOn ==
  /\ toggles.AUTO_VIEW_STATUS /\ toggles.AUTO_LIKE_STATUS
  /\ toggles.AUTO_STATUS_SEEN /\ toggles.AUTO_STATUS_REPLY
  /\ feat.pc = "done" /\ feat.passed /\ feat.chat = HomeChat

\* C16: a step in which handleAntiDelete looks up the key of a deletion
\* notice and finds no retained entry ends the handler at once: it has
\* returned (no exception), it has sent nothing, and the cache is as it was.
C16_UnmatchedNoticeIsNoOp ==
  [][\A c \in Calls :
       (calls'[c] # calls[c] /\ calls'[c].looked /\ ~calls'[c].matched)
         => /\ calls'[c].pc = "done"
            /\ calls'[c].sends = <<>>
            /\ messageStore' = messageStore]_vars

\* C16 witness: the handler has returned from a notice that matched nothing
\* while the cache holds other entries.
C16_UnmatchedNoticeWithFilledCache ==
  \E c \in Calls :
    /\ calls[c].pc = "done" /\ calls[c].looked /\ ~calls[c].matched
    /\ calls[c].sends = <<>>
    /\ messageStore # <<>> /\ ~MapHas(messageStore, calls[c].id)

\* The latest send of a call.
LastSend(call) == call.sends[Len(call.sends)]

\* C17: whatever sends fail, the handler is only ever idle, suspended at one
\* of its sends, or returned; it never ends with an exception. A rejected
\* report or fallback send ends it normally, a rejected resend or
\* supplementary notice leads to the fallback send.
C17_HandlerNeverThrows ==
  \A c \in Calls :
    LET call == calls[c]
    IN /\ call.pc \in {"idle", "report", "resend", "info", "fallback", "done"}
       /\ (call.sends # <<>> /\ ~LastSend(call).ok) =>
            call.pc = IF LastSend(call).what \in {"report", "fallback"}
                      THEN "done" ELSE "fallback"

\* C17 witness: the handler has returned after its resend and its fallback
\* send were both rejected.
C17_ReturnedAfterResendAndFallbackFailed ==
  \E c \in Calls :
    LET call == calls[c]
    IN /\ call.pc = "done" /\ Len(call.sends) >= 2
       /\ LastSend(call).what = "fallback" /\ ~LastSend(call).ok
       /\ \E i \in DOMAIN call.sends : call.sends[i].what = "original" /\ ~call.sends[i].ok

\* The step is the delete of module.js:333 for the id: a recovery of that id
\* returns after a send that succeeded.
DeleteStep(id) ==
  \E c \in Calls :
    /\ calls[c].id = id /\ calls[c].pc \in {"resend", "info", "fallback"}
    /\ calls'[c].pc = "done" /\ LastSend(calls'[c]).ok
\* The step is a put of the id by the store handler.
PutStep(id) ==
  \E mek \in ContentMeks :
    mek.id = id /\ Retains(mek) /\ messageStore' = storePut(messageStore, mek, now)

\* C19: the delete of an id leaves a lookup of that id absent, and the lookup
\* stays absent over every step that is not a put of the same id: an id
\* that is absent before a step and present after it was put by that step.
C19_AbsentAfterDeleteUntilPut ==
  [][\A id \in MsgIds :
       /\ DeleteStep(id) => ~MapHas(messageStore', id)
       /\ (~MapHas(messageStore, id) /\ MapHas(messageStore', id)) => PutStep(id)]_vars

\* C19 witness: a recovery has deleted its id and returned, and the cache
\* still holds an entry of a smaller id.
C19_DeletedBehindAnotherEntry ==
  \E c \in Calls :
    /\ calls[c].pc = "done" /\ calls[c].matched /\ AllSendsOk(calls[c])
    /\ ~MapHas(messageStore, calls[c].id)
    /\ \E i \in DOMAIN messageStore : messageStore[i].id < calls[c].id

\* C18: a failure of a reconcile run is soft at both callers: when the run
\* raises, and when a timer starts it while no session is open, no rejection
\* is left without a handler; and a run started with no session open returns
\* its summary with every group recorded as failed.
C18_ReconcileFailureStaysSoft ==
  /\ ~run.escaped
  /\ (run.pc = "returned" /\ ~run.sessionOpen) => run.failedCount = MaxGroups

\* C20: once a session handle exists, exactly one setInterval is registered,
\* however many closes and reconnects there were.
C20_ExactlyOneTimer ==
  nHandles >= 1 => Cardinality({h \in Handles : timerOn[h]}) = 1

\* C21: no command is issued on a session handle that has closed once a
\* restart has constructed a new handle.
C21_NoCommandOnClosedHandle == \A h \in Handles : ~staleUse[h]


\* The handler sent (or tried to send) a message of the given sort.
Tried(call, what) == \E i \in DOMAIN call.sends : call.sends[i].what = what
\* The send of the given sort was rejected.
Failed(call, what) ==
  \E i \in DOMAIN call.sends : call.sends[i].what = what /\ ~call.sends[i].ok

\* C22: a recovery whose report send was rejected has, once the handler has
\* returned, still attempted the resend of the original content and removed
\* the cache entry.
C22_ReportFailureDoesNotAbort ==
  \A c \in Calls :
    LET call == calls[c]
    IN (call.matched /\ call.pc = "done" /\ Failed(call, "report")) =>
         Tried(call, "original") /\ call.removed


\* C23: when the handler has returned from a matched notice whose report send
\* (if any) was not rejected, the cache entry has been removed, whether the
\* resend succeeded, fell back, or the fallback send itself was rejected.
C23_EntryRemovedOnCompletion ==
  \A c \in Calls :
    LET call == calls[c]
    IN (call.matched /\ call.pc = "done" /\ ~Failed(call, "report")) => call.removed


\* C24: the fallback summary is sent exactly when the resend of the original
\* content was rejected: a handler that is at (or past) its fallback send had
\* its resend rejected, and a rejected resend always leads to the fallback
\* send; so no chat gets both the original and the fallback for one notice.
C24_FallbackIffResendFailed ==
  \A c \in Calls :
    LET call == calls[c]
    IN (call.pc = "fallback" \/ Tried(call, "fallback")) <=> Failed(call, "original")


\* The original content was resent and the send went through.
Resent(call) ==
  \E i \in DOMAIN call.sends : call.sends[i].what = "original" /\ call.sends[i].ok
\* The handler is suspended at one of its sends.
InFlight(call) == call.pc \in {"report", "resend", "info", "fallback"}

\* C25: of two invocations in flight for notices that carry the same key, at
\* most one has resent the original content.
C25_RecoveredAtMostOnce ==
  \A c1, c2 \in Calls :
    (/\ c1 # c2
     /\ calls[c1].matched /\ calls[c2].matched /\ calls[c1].id = calls[c2].id
     /\ InFlight(calls[c1]) /\ InFlight(calls[c2])) =>
      ~(Resent(calls[c1]) /\ Resent(calls[c2]))


\* C26: a recovery that sends (or tries to send) the supplementary notice is
\* one of a retained plain-text or extended-text payload.
C26_SupplementaryNoticeOnlyForText ==
  \A c \in Calls :
    Tried(calls[c], "info") => calls[c].kind \in {"conversation", "extendedTextMessage"}


\* The Map without the entry at position i.
Without(store, i) == SubSeq(store, 1, i - 1) \o SubSeq(store, i + 1, Len(store))
\* after is store less one entry, which has the smallest timestamp of store
\* and is the first such entry in the iteration order of the Map.
EvictsOldest(store, after) ==
  \E i \in DOMAIN store :
    /\ after = Without(store, i)
    /\ \A j \in DOMAIN store : store[i].timestamp <= store[j].timestamp
    /\ \A j \in 1..(i - 1) : store[j].timestamp > store[i].timestamp

\* C27: with s1 the cache right after the set of a put, a put for which s1
\* exceeds the limit leaves s1 less exactly one entry, the one of the
\* smallest timestamp (the first of them in Map order when several tie), and
\* a put for which s1 does not exceed the limit leaves s1.
C27_PutEvictsOnlyTheOldest ==
  [][now' = now =>
       \E mek \in ContentMeks :
         /\ Retains(mek) /\ recency' = Touch(recency, mek.id)
         /\ LET s1 == MapSet(messageStore, StoredEntry(mek, now))
            IN IF Len(s1) > StoreLimit
               THEN EvictsOldest(s1, messageStore')
               ELSE messageStore' = s1]_vars

\* C27 witness: an id that was put is no longer retained, and the entries
\* left carry different timestamps.
C27_EvictedWithMixedTimestamps ==
  /\ \E k \in DOMAIN recency : ~MapHas(messageStore, recency[k])
  /\ \E i, j \in DOMAIN messageStore : messageStore[i].timestamp # messageStore[j].timestamp


\* The Map holds one entry per identifier.
OnePerId(store) == \A i, j \in DOMAIN store : store[i].id = store[j].id => i = j
\* The message has a valid identifier and was not sent by the agent.
Retainable(m) == m.id # NoId /\ ~m.fromMe

\* C28: in every state the cache holds one entry per identifier, every entry
\* is of a message with a valid identifier that the agent did not send, and
\* entries exist only when retention is enabled; and every inbound event that
\* changes the cache is a put of such a message with retention enabled.
C28_OnlyRetainableEntries ==
  /\ [](/\ OnePerId(messageStore)
        /\ \A i \in DOMAIN messageStore : Retainable(messageStore[i])
        /\ messageStore # <<>> => ANTI_DELETE_ENABLED)
  /\ [][messageStore' # messageStore =>
          \E mek \in ContentMeks \cup NoticeMeks :
            /\ Retainable(mek) /\ ANTI_DELETE_ENABLED
            /\ messageStore' = storePut(messageStore, mek, now)]_vars

\* C28 witness: the cache is full and holds a retained content message next
\* to a retained protocol message.
C28_FullCacheOfInboundMessages ==
  /\ Len(messageStore) = StoreLimit
  /\ \E i, j \in DOMAIN messageStore :
       messageStore[i].id \in MsgIds /\ messageStore[j].kind = "protocolMessage"


\* C29: when the attempt of a target has started, the inter-attempt delay was
\* awaited after every earlier target of the run, whatever its outcome, and
\* no delay is awaited after the last target.
C29_DelayBetweenConsecutiveTargets ==
  /\ \A i \in MANDATORY_GROUPS : i < run.i => i \in run.paced
  /\ MaxGroups \notin run.paced


\* C30: the open handler of no handle ends before its connect notification
\* (every handler that runs its reconcile goes on to the notification); the
\* notification is started only by the return of the handler's reconcile
\* run; and the first-open flag is cleared only by the handler of the
\* initialConnection branch when its notification has returned.
C30_ReconcileThenNotifyOnEveryOpen ==
  /\ [](\A h \in Handles : opc[h] # "raised")
  /\ [][/\ \A h \in Handles :
             (opc'[h] # opc[h] /\ opc'[h] \in {"notifyFirst", "notify"}) =>
               opc[h] \in {"reconFirst", "recon"}
        /\ (initialConnection /\ ~initialConnection') =>
             \E h \in Handles : opc[h] = "notifyFirst" /\ opc'[h] = "done"]_vars


\* C31: a run that has returned its summary has joined + alreadyIn + failed
\* equal to the number of targets (the total of the summary), and its results
\* hold exactly one outcome per target, in list order.
C31_SummaryCountsAddUp ==
  run.pc = "returned" =>
    /\ run.joinedCount + run.alreadyInCount + run.failedCount = MaxGroups
    /\ Len(run.results) = MaxGroups
    /\ \A i \in MANDATORY_GROUPS : run.results[i].group = i

\* C31 witness: a run has returned in which one target was joined, one was
\* already a member, and the join of one threw out of joinGroupByInviteCode
\* to the per-target catch.
C31_ReturnedWithMixedOutcomes ==
  /\ run.pc = "returned"
  /\ run.joinedCount > 0 /\ run.alreadyInCount > 0
  /\ \E i \in DOMAIN run.thrown : run.thrown[i].outcome = RejectedBare

=============================================================================
